---- MODULE Spec2Model ----
(***************************************************************************)
(* Model of the heap package: the array-backed binary Heap and the         *)
(* OptimizedHeap wrapping it (capacity control, growth function, lazy      *)
(* heapification).                                                         *)
(*                                                                         *)
(* Spec: three instances are built by one constructor step with the same   *)
(* comparator and the same options and then driven by the same sequence of *)
(* Insert and Extract calls: a plain Heap (h), an OptimizedHeap in eager   *)
(* mode (eager) and an OptimizedHeap with UseLazyHeapification (lazy).     *)
(* Slices are modelled as a sequence (the elements 0..len-1) together with *)
(* the capacity of the backing array.  Indices are 0-based as in the code. *)
(*                                                                         *)
(* SpecCtor: the constructor applied to recorded arguments (args), followed *)
(* by the first calls on the heaps it returned.                            *)
(*                                                                         *)
(* SpecSteps: one Insert or Extract call executed statement by statement   *)
(* (run), each iteration of heapifyUp, heapifyDown and buildHeap a step.   *)
(***************************************************************************)
EXTENDS Integers, Sequences, FiniteSets, TLC

VARIABLES pc, ctorErr, h, eager, lazy, lastOp, nOps, phase, hT, eT, lT,
          args, run

vars == <<pc, ctorErr, h, eager, lazy, lastOp, nOps, phase, hT, eT, lT,
          args, run>>

----------------------------------------------------------------------------
(* Bounds of the model *)

\* number of Insert/Extract calls made on the instances
MaxOps == 6
\* elements are the integers 0..MaxValue
MaxValue == 2
\* capacities passed to WithCapacity range over -1..MaxCap
MaxCap == 2
\* number of options passed to the constructor (besides UseLazyHeapification)
MaxOpts == 2

Values == 0..MaxValue

----------------------------------------------------------------------------
(* Program constants *)

\* defaultOptimizedHeap: cap
DefaultCap == 16
\* defaultOptimizedHeap: growthFunc threshold
GrowthThreshold == 1024
\* `var zero T` for T = int
Zero == 0

ErrNil == "nil"
ErrNegativeCap == "heap: capacity cannot be negative"
ErrZeroCap == "heap: capacity cannot be zero"
ErrCapacityReached == "heap: capacity reached and cannot grow"

----------------------------------------------------------------------------
(* Comparators: less(a, b) is true if a has higher priority than b *)

\* the Priority field of an element, for the custom comparator of the README:
\* distinct elements 2k and 2k+1 have the same priority
Priority(a) == a \div 2

Comparators == {"min", "max", "priority"}

less(cmp, a, b) ==
    CASE cmp = "min"      -> a < b
      [] cmp = "max"      -> a > b
      [] cmp = "priority" -> Priority(a) < Priority(b)

----------------------------------------------------------------------------
(* Slices *)

\* d[i] with the code's 0-based index
At(d, i) == d[i + 1]

\* d[i], d[j] = d[j], d[i]
Swap(d, i, j) == [d EXCEPT ![i + 1] = d[j + 1], ![j + 1] = d[i + 1]]

Max2(a, b) == IF a >= b THEN a ELSE b

\* capacity after append(s, v) on a slice of length n and capacity c: unchanged
\* while the element fits; otherwise the runtime allocates a new array, which
\* for word-sized elements and the small capacities reached here has double
\* the old capacity (and capacity 1 for a nil slice)
AppendCap(c, n) ==
    IF n + 1 <= c THEN c ELSE Max2(2 * c, n + 1)

----------------------------------------------------------------------------
(* Heap *)

parentIndex(index) == IF index = 0 THEN -1 ELSE (index - 1) \div 2

leftChildIndex(index) == 2 * index + 1

rightChildIndex(index) == 2 * index + 2

\* heapifyUp with `if` in place of `for`: the element climbs one level at most
heapifyUpOnce(cmp, d, index) ==
    IF index > 0 /\ less(cmp, At(d, index), At(d, parentIndex(index)))
    THEN Swap(d, index, parentIndex(index))
    ELSE d

RECURSIVE heapifyUp(_, _, _)
heapifyUp(cmp, d, index) ==
    IF index > 0
    THEN LET p == parentIndex(index)
         IN  IF less(cmp, At(d, index), At(d, p))
             THEN heapifyUp(cmp, Swap(d, index, p), p)
             ELSE d
    ELSE d

\* heapifyDown that never looks at the right child
RECURSIVE heapifyDownLeftOnly(_, _, _)
heapifyDownLeftOnly(cmp, d, index) ==
    LET leftChild == leftChildIndex(index)
    IN  IF leftChild < Len(d) /\ less(cmp, At(d, leftChild), At(d, index))
        THEN heapifyDownLeftOnly(cmp, Swap(d, index, leftChild), leftChild)
        ELSE d

RECURSIVE heapifyDown(_, _, _)
heapifyDown(cmp, d, index) ==
    LET n == Len(d)
        leftChild == leftChildIndex(index)
        rightChild == rightChildIndex(index)
        c1 == IF leftChild < n /\ less(cmp, At(d, leftChild), At(d, index))
              THEN leftChild ELSE index
        current == IF rightChild < n /\ less(cmp, At(d, rightChild), At(d, c1))
                   THEN rightChild ELSE c1
    IN  IF current # index
        THEN heapifyDown(cmp, Swap(d, index, current), current)
        ELSE d

\* New / NewMinHeap / NewMaxHeap: a nil slice
NewHeap(cmp) == [data |-> <<>>, cap |-> 0, less |-> cmp]

\* Heap.Insert: the heap after the call (the error is always nil)
HeapInsert(hp, value) ==
    [hp EXCEPT !.data = heapifyUp(hp.less, Append(hp.data, value), Len(hp.data)),
               !.cap = AppendCap(hp.cap, Len(hp.data))]

\* Heap.Extract returning the last element in place of the root
HeapExtractLast(hp) ==
    IF Len(hp.data) = 0
    THEN [h |-> hp, value |-> Zero, found |-> FALSE]
    ELSE LET lastIndex == Len(hp.data) - 1
         IN  [h |-> [hp EXCEPT !.data = SubSeq(hp.data, 1, lastIndex)],
              value |-> At(hp.data, lastIndex), found |-> TRUE]

\* Heap.Extract without `h.data = h.data[:lastIndex]`
HeapExtractNoShrink(hp) ==
    IF Len(hp.data) = 0
    THEN [h |-> hp, value |-> Zero, found |-> FALSE]
    ELSE LET moved == [hp.data EXCEPT ![1] = At(hp.data, Len(hp.data) - 1)]
         IN  [h |-> [hp EXCEPT !.data = heapifyDown(hp.less, moved, 0)],
              value |-> At(hp.data, 0), found |-> TRUE]

\* Heap.Extract copying the remaining elements to a new array of their length
HeapExtractClip(hp) ==
    IF Len(hp.data) = 0
    THEN [h |-> hp, value |-> Zero, found |-> FALSE]
    ELSE LET lastIndex == Len(hp.data) - 1
             moved == [hp.data EXCEPT ![1] = At(hp.data, lastIndex)]
         IN  [h |-> [hp EXCEPT !.data = heapifyDown(hp.less, SubSeq(moved, 1, lastIndex), 0),
                               !.cap = lastIndex],
              value |-> At(hp.data, 0), found |-> TRUE]

\* Heap.Extract: the heap after the call and the pair returned
HeapExtract(hp) ==
    IF Len(hp.data) = 0
    THEN [h |-> hp, value |-> Zero, found |-> FALSE]
    ELSE LET root == At(hp.data, 0)
             lastIndex == Len(hp.data) - 1
             moved == [hp.data EXCEPT ![1] = At(hp.data, lastIndex)]
             cut == SubSeq(moved, 1, lastIndex)
         IN  [h |-> [hp EXCEPT !.data = heapifyDown(hp.less, cut, 0)],
              value |-> root, found |-> TRUE]

----------------------------------------------------------------------------
(* OptimizedHeap *)

GrowthFuncs == {"default", "half"}

\* the growth functions handed to WithGrowthFunction: the default one and one
\* that breaks the contract by returning a smaller capacity
growthFunc(f, currentCap) ==
    CASE f = "default" -> IF currentCap < GrowthThreshold
                          THEN currentCap * 2
                          ELSE currentCap + currentCap \div 4
      [] f = "half"    -> currentCap \div 2

defaultOptimizedHeap ==
    [h |-> "nil", cap |-> DefaultCap, canGrow |-> TRUE, useLazy |-> FALSE,
     growthFunc |-> "default", heapified |-> FALSE]

WithCapacity(c, g) == [opt |-> "WithCapacity", cap |-> c, canGrow |-> g]

WithGrowthFunction(f) == [opt |-> "WithGrowthFunction", growthFunc |-> f]

UseLazyHeapification == [opt |-> "UseLazyHeapification"]

\* o(oh) for an option o
ApplyOpt(o, oh) ==
    CASE o.opt = "WithCapacity" -> [oh EXCEPT !.cap = o.cap, !.canGrow = o.canGrow]
      [] o.opt = "WithGrowthFunction" -> [oh EXCEPT !.growthFunc = o.growthFunc]
      [] o.opt = "UseLazyHeapification" -> [oh EXCEPT !.useLazy = TRUE]

\* for _, o := range opts { o(oh) }, from option number i on
RECURSIVE ApplyOpts(_, _, _)
ApplyOpts(opts, i, oh) ==
    IF i > Len(opts) THEN oh
    ELSE ApplyOpts(opts, i + 1, ApplyOpt(opts[i], oh))

\* validateOptions without the zero test
validateOptionsNoZero(oh) ==
    IF oh.cap < 0 THEN ErrNegativeCap ELSE ErrNil

validateOptions(oh) ==
    IF oh.cap < 0 THEN ErrNegativeCap
    ELSE IF oh.cap = 0 THEN ErrZeroCap
    ELSE ErrNil

\* NewOptimizedHeap: the pair returned
NewOptimizedHeap(cmp, opts) ==
    LET oh == ApplyOpts(opts, 1, defaultOptimizedHeap)
        err == validateOptions(oh)
    IN  IF err # ErrNil
        THEN [oh |-> "nil", err |-> err]
        ELSE [oh |-> [oh EXCEPT !.h = [data |-> <<>>, cap |-> oh.cap, less |-> cmp]],
              err |-> ErrNil]

\* make([]T, n, newCap): n zero values
Make(n) == [i \in 1..n |-> Zero]

\* copy that stops one element early
CopyShort(dst, src) ==
    [i \in 1..Len(dst) |-> IF i < Len(src) THEN src[i] ELSE dst[i]]

\* copy(dst, src): the first min(len(dst), len(src)) elements of src, in order
Copy(dst, src) ==
    [i \in 1..Len(dst) |-> IF i <= Len(src) THEN src[i] ELSE dst[i]]

\* the capacity of the array allocated when an eager Insert finds the slice full
NewCap(f, c) ==
    LET newCap == growthFunc(f, c)
    IN  IF newCap <= c THEN c + 1 ELSE newCap

\* OptimizedHeap.insertOnly
insertOnly(oh, value) ==
    [oh EXCEPT !.h.data = Append(oh.h.data, value),
               !.h.cap = AppendCap(oh.h.cap, Len(oh.h.data))]

\* the reallocation without the `len == cap` test: every Insert reallocates
GrowAlways(oh) ==
    [oh EXCEPT !.h.data = Copy(Make(Len(oh.h.data)), oh.h.data),
               !.h.cap = NewCap(oh.growthFunc, oh.h.cap)]

\* the reallocation with make([]T, newCap): the new slice has length newCap
GrowFullLen(oh) ==
    IF Len(oh.h.data) = oh.h.cap
    THEN [oh EXCEPT !.h.data = Copy(Make(NewCap(oh.growthFunc, oh.h.cap)), oh.h.data),
                    !.h.cap = NewCap(oh.growthFunc, oh.h.cap)]
    ELSE oh

\* the reallocation of an eager Insert
Grow(oh) ==
    IF Len(oh.h.data) = oh.h.cap
    THEN [oh EXCEPT !.h.data = Copy(Make(Len(oh.h.data)), oh.h.data),
                    !.h.cap = NewCap(oh.growthFunc, oh.h.cap)]
    ELSE oh

\* OptimizedHeap.Insert rejecting with `>` in place of `>=`
OptimizedInsertOffByOne(oh, value) ==
    IF ~oh.canGrow /\ Len(oh.h.data) > oh.h.cap
    THEN [oh |-> oh, err |-> ErrCapacityReached]
    ELSE IF oh.useLazy
    THEN [oh |-> [insertOnly(oh, value) EXCEPT !.heapified = FALSE],
          err |-> ErrNil]
    ELSE LET g == Grow(oh)
         IN  [oh |-> [g EXCEPT !.h = HeapInsert(g.h, value)], err |-> ErrNil]

\* OptimizedHeap.Insert testing the capacity after the lazy branch: a lazy
\* heap that is full takes the element and then reports the error
OptimizedInsertLateCheck(oh, value) ==
    IF oh.useLazy
    THEN [oh |-> [insertOnly(oh, value) EXCEPT !.heapified = FALSE],
          err |-> IF ~oh.canGrow /\ Len(oh.h.data) >= oh.h.cap
                  THEN ErrCapacityReached ELSE ErrNil]
    ELSE IF ~oh.canGrow /\ Len(oh.h.data) >= oh.h.cap
    THEN [oh |-> oh, err |-> ErrCapacityReached]
    ELSE LET g == Grow(oh)
         IN  [oh |-> [g EXCEPT !.h = HeapInsert(g.h, value)], err |-> ErrNil]

\* OptimizedHeap.Insert without `oh.heapified = false`
OptimizedInsertKeepFlag(oh, value) ==
    IF ~oh.canGrow /\ Len(oh.h.data) >= oh.h.cap
    THEN [oh |-> oh, err |-> ErrCapacityReached]
    ELSE IF oh.useLazy
    THEN [oh |-> insertOnly(oh, value), err |-> ErrNil]
    ELSE LET g == Grow(oh)
         IN  [oh |-> [g EXCEPT !.h = HeapInsert(g.h, value)], err |-> ErrNil]

\* OptimizedHeap.Insert: the heap after the call and the error returned
OptimizedInsert(oh, value) ==
    IF ~oh.canGrow /\ Len(oh.h.data) >= oh.h.cap
    THEN [oh |-> oh, err |-> ErrCapacityReached]
    ELSE IF oh.useLazy
    THEN [oh |-> [insertOnly(oh, value) EXCEPT !.heapified = FALSE],
          err |-> ErrNil]
    ELSE LET g == Grow(oh)
         IN  [oh |-> [g EXCEPT !.h = HeapInsert(g.h, value)], err |-> ErrNil]

\* shouldBuildHeap without the length test
shouldBuildHeapNoLen(oh) == ~oh.heapified

shouldBuildHeap(oh) == ~oh.heapified /\ Len(oh.h.data) > 0

\* the loop of buildHeap run upwards, from index i to the last parent
RECURSIVE buildHeapUpFrom(_, _, _)
buildHeapUpFrom(cmp, d, i) ==
    IF i <= Len(d) \div 2 - 1
    THEN buildHeapUpFrom(cmp, heapifyDown(cmp, d, i), i + 1)
    ELSE d

\* buildHeap with `for i := 0; i <= n/2-1; i++`: the parents are sifted down
\* from the root to the last one
buildHeapTopDown(oh) ==
    [oh EXCEPT !.h.data = buildHeapUpFrom(oh.h.less, oh.h.data, 0)]

\* the loop of buildHeap from index i down to 0
RECURSIVE buildHeapFrom(_, _, _)
buildHeapFrom(cmp, d, i) ==
    IF i >= 0 THEN buildHeapFrom(cmp, heapifyDown(cmp, d, i), i - 1) ELSE d

\* buildHeap with `i > 0` as the loop condition: the root is never sifted down
RECURSIVE buildHeapAbove(_, _, _)
buildHeapAbove(cmp, d, i) ==
    IF i > 0 THEN buildHeapAbove(cmp, heapifyDown(cmp, d, i), i - 1) ELSE d

buildHeapNoRoot(oh) ==
    [oh EXCEPT !.h.data = buildHeapAbove(oh.h.less, oh.h.data, Len(oh.h.data) \div 2 - 1)]

buildHeap(oh) ==
    [oh EXCEPT !.h.data = buildHeapFrom(oh.h.less, oh.h.data, Len(oh.h.data) \div 2 - 1)]

\* OptimizedHeap.Extract that moves the elements to an array of half the
\* capacity once no more than half of it is in use
OptimizedExtractShrink(oh) ==
    LET built == IF oh.useLazy /\ shouldBuildHeap(oh)
                 THEN [buildHeap(oh) EXCEPT !.heapified = TRUE]
                 ELSE oh
        r == HeapExtract(built.h)
        c == IF 2 * Len(r.h.data) <= r.h.cap /\ r.h.cap > 1
             THEN r.h.cap \div 2 ELSE r.h.cap
    IN  [oh |-> [built EXCEPT !.h = [r.h EXCEPT !.cap = c]],
         value |-> r.value, found |-> r.found]

\* OptimizedHeap.Extract: the heap after the call and the pair returned
OptimizedExtract(oh) ==
    LET built == IF oh.useLazy /\ shouldBuildHeap(oh)
                 THEN [buildHeap(oh) EXCEPT !.heapified = TRUE]
                 ELSE oh
        r == HeapExtract(built.h)
    IN  [oh |-> [built EXCEPT !.h = r.h], value |-> r.value, found |-> r.found]

----------------------------------------------------------------------------
(* The calls made on the three instances, and what each call returned *)

\* the options a caller may pass besides UseLazyHeapification
Options ==
    {WithCapacity(c, g) : c \in -1..MaxCap, g \in BOOLEAN}
        \cup {WithGrowthFunction(f) : f \in GrowthFuncs}

OptLists == UNION {[1..n -> Options] : n \in 0..MaxOpts}

\* the elements of a slice as a multiset: how often each value occurs
BagOf(d) == [v \in Values |-> Cardinality({i \in 1..Len(d) : d[i] = v})]

NoResult == [value |-> Zero, found |-> FALSE]

\* what the caller of one instance has seen: the error of the last Insert, the
\* pair returned by the last Extract, the pair returned by the Extract right
\* before it (when no other call came between), the number of Inserts that
\* returned nil, the number of Extracts that returned found = true, and the
\* values inserted and not yet extracted
NewTrace ==
    [err |-> ErrNil, value |-> Zero, found |-> FALSE, prev |-> NoResult,
     nIns |-> 0, nExt |-> 0, live |-> [v \in Values |-> 0]]

AfterInsert(t, value, err) ==
    [t EXCEPT !.err = err, !.value = Zero, !.found = FALSE, !.prev = NoResult,
              !.nIns = IF err = ErrNil THEN @ + 1 ELSE @,
              !.live = IF err = ErrNil THEN [@ EXCEPT ![value] = @ + 1] ELSE @]

AfterExtract(t, value, found, consecutive) ==
    [t EXCEPT !.err = ErrNil, !.value = value, !.found = found,
              !.prev = IF consecutive THEN [value |-> t.value, found |-> t.found]
                       ELSE NoResult,
              !.nExt = IF found THEN @ + 1 ELSE @,
              !.live = IF found THEN [@ EXCEPT ![value] = @ - 1] ELSE @]

Init ==
    /\ pc = "new"
    /\ ctorErr = ErrNil
    /\ h = "nil"
    /\ eager = "nil"
    /\ lazy = "nil"
    /\ lastOp = "none"
    /\ nOps = 0
    /\ phase = "fill"
    /\ hT = NewTrace
    /\ eT = NewTrace
    /\ lT = NewTrace
    /\ args = "none"
    /\ run = "none"

\* New(less), NewOptimizedHeap(less, opts...) and
\* NewOptimizedHeap(less, opts..., UseLazyHeapification())
NewWith(cmp, opts) ==
    /\ pc = "new"
    /\ LET e == NewOptimizedHeap(cmp, opts)
           l == NewOptimizedHeap(cmp, Append(opts, UseLazyHeapification))
       IN  /\ pc' = IF e.err = ErrNil THEN "ready" ELSE "failed"
           /\ ctorErr' = e.err
           /\ h' = IF e.err = ErrNil THEN NewHeap(cmp) ELSE "nil"
           /\ eager' = e.oh
           /\ lazy' = l.oh
    /\ lastOp' = "New"
    /\ UNCHANGED <<nOps, phase, hT, eT, lT, args, run>>

New ==
    /\ pc = "new"
    /\ \E cmp \in Comparators, opts \in OptLists : NewWith(cmp, opts)

\* h.Insert(value), eager.Insert(value), lazy.Insert(value)
Insert(value) ==
    /\ pc = "ready"
    /\ nOps < MaxOps
    /\ \E e \in {OptimizedInsert(eager, value)}, l \in {OptimizedInsert(lazy, value)} :
           /\ h' = HeapInsert(h, value)
           /\ eager' = e.oh
           /\ lazy' = l.oh
           /\ hT' = AfterInsert(hT, value, ErrNil)
           /\ eT' = AfterInsert(eT, value, e.err)
           /\ lT' = AfterInsert(lT, value, l.err)
    /\ lastOp' = "Insert"
    /\ nOps' = nOps + 1
    /\ phase' = IF phase = "fill" THEN "fill" ELSE "mixed"
    /\ UNCHANGED <<pc, ctorErr, args, run>>

\* h.Extract(), eager.Extract(), lazy.Extract()
Extract ==
    /\ pc = "ready"
    /\ nOps < MaxOps
    /\ \E p \in {HeapExtract(h)}, e \in {OptimizedExtract(eager)},
          l \in {OptimizedExtract(lazy)}, consecutive \in {lastOp = "Extract"} :
           /\ h' = p.h
           /\ eager' = e.oh
           /\ lazy' = l.oh
           /\ hT' = AfterExtract(hT, p.value, p.found, consecutive)
           /\ eT' = AfterExtract(eT, e.value, e.found, consecutive)
           /\ lT' = AfterExtract(lT, l.value, l.found, consecutive)
    /\ lastOp' = "Extract"
    /\ nOps' = nOps + 1
    /\ phase' = IF phase = "mixed" THEN "mixed" ELSE "drain"
    /\ UNCHANGED <<pc, ctorErr, args, run>>

Next ==
    \/ New
    \/ \E value \in Values : Insert(value)
    \/ Extract

Spec == Init /\ [][Next]_vars

Ready == pc = "ready"

----------------------------------------------------------------------------
(* Vocabulary of the properties *)

\* the heap property over a slice: no element has higher priority than its parent
HeapOrdered(cmp, d) ==
    \A i \in 1..(Len(d) - 1) : ~less(cmp, At(d, i), At(d, parentIndex(i)))

\* each instance's Heap with what its caller has seen
Instances ==
    {[name |-> "Heap", hp |-> h, t |-> hT],
     [name |-> "eager", hp |-> eager.h, t |-> eT],
     [name |-> "lazy", hp |-> lazy.h, t |-> lT]}

\* the two OptimizedHeaps with what their callers have seen
Optimized ==
    {[name |-> "eager", oh |-> eager, t |-> eT],
     [name |-> "lazy", oh |-> lazy, t |-> lT]}

\* the OptimizedHeap was built with no capacity and no growth option
DefaultOptions(oh) ==
    oh.cap = DefaultCap /\ oh.canGrow /\ oh.growthFunc = "default"

\* number of Extract calls made so far (a plain Heap accepts every Insert)
ExtractCalls == nOps - hT.nIns

----------------------------------------------------------------------------
(* C1 *)

\* C1: sorted extraction.  After n Inserts into the empty Heap (any comparator,
\* min and max among them) or the empty OptimizedHeap with default options,
\* followed by Extract calls only, each of the first n Extracts returns a
\* value, and of two consecutive values x then y, less(y, x) is false.
SortedExtraction ==
    (Ready /\ phase = "drain") =>
        \A x \in {y \in Instances :
                     y.name = "Heap" \/ (y.name = "eager" /\ DefaultOptions(eager))} :
            /\ x.t.found <=> ExtractCalls <= x.t.nIns
            /\ (x.t.found /\ x.t.prev.found)
                   => ~less(x.hp.less, x.t.value, x.t.prev.value)

\* three values went in, and the third Extract returned a value other than
\* the second one did
SortedExtractionWitness ==
    /\ Ready /\ phase = "drain" /\ DefaultOptions(eager)
    /\ hT.nIns = 3 /\ hT.nExt = 3 /\ eT.nExt = 3
    /\ hT.prev.found /\ hT.value # hT.prev.value
    /\ eT.prev.found /\ eT.value # eT.prev.value

----------------------------------------------------------------------------
(* C2 *)

\* C2: in any interleaving of Insert and Extract, an Extract on a non-empty
\* Heap or OptimizedHeap (eager or lazy) returns found = true and a value that
\* was stored in it, and no element left in it has higher priority than that
\* value.
ExtractReturnsHighestPriority ==
    [][(pc = "ready" /\ lastOp' = "Extract") =>
          /\ (Len(h.data) > 0) =>
                /\ hT'.found
                /\ \E i \in 1..Len(h.data) : h.data[i] = hT'.value
                /\ \A i \in 1..Len(h'.data) : ~less(h.less, h'.data[i], hT'.value)
          /\ (Len(eager.h.data) > 0) =>
                /\ eT'.found
                /\ \E i \in 1..Len(eager.h.data) : eager.h.data[i] = eT'.value
                /\ \A i \in 1..Len(eager'.h.data) :
                       ~less(eager.h.less, eager'.h.data[i], eT'.value)
          /\ (Len(lazy.h.data) > 0) =>
                /\ lT'.found
                /\ \E i \in 1..Len(lazy.h.data) : lazy.h.data[i] = lT'.value
                /\ \A i \in 1..Len(lazy'.h.data) :
                       ~less(lazy.h.less, lazy'.h.data[i], lT'.value)]_vars

\* an Extract that came after Inserts and Extracts had alternated, returned a
\* value and left behind elements of lower priority
ExtractReturnsHighestPriorityWitness ==
    /\ Ready /\ lastOp = "Extract" /\ phase = "mixed"
    /\ hT.found /\ eT.found /\ lT.found
    /\ \E i \in 1..Len(h.data) : less(h.less, hT.value, h.data[i])
    /\ \E i \in 1..Len(lazy.h.data) : less(lazy.h.less, lT.value, lazy.h.data[i])
    /\ Len(lazy.h.data) >= 2

----------------------------------------------------------------------------
(* C3 *)

\* C3: heap-order invariant.  After every completed Insert or Extract, in any
\* interleaving and under every comparator, the elements of the Heap and of
\* the eager OptimizedHeap satisfy: for every index i > 0,
\* less(data[i], data[(i-1)/2]) is false.
HeapOrderInvariant ==
    Ready => /\ HeapOrdered(h.less, h.data)
             /\ HeapOrdered(eager.h.less, eager.h.data)

\* four elements of more than one priority are stored, under the descending
\* comparator, after Inserts and Extracts had alternated
HeapOrderInvariantWitness ==
    /\ Ready /\ phase = "mixed" /\ h.less = "max"
    /\ Len(h.data) >= 4 /\ Len(eager.h.data) >= 4
    /\ \E i \in 1..Len(h.data) : less(h.less, h.data[1], h.data[i])
    /\ eager.h.cap > eager.cap

----------------------------------------------------------------------------
(* C4 *)

\* C4 as stated: the lazy and the eager OptimizedHeap return the same
\* (value, found) pair from every Extract.
LazyEquivalenceAsStated ==
    (Ready /\ lastOp = "Extract") =>
        (eT.value = lT.value /\ eT.found = lT.found)

\* C4, amended: the lazy and the eager OptimizedHeap return the same found
\* flag from every Extract and values of equal priority (neither is less than
\* the other); the values are the same whenever the comparator never ties two
\* different values, as the ascending and descending ones do.
LazyEquivalence ==
    (Ready /\ lastOp = "Extract") =>
        /\ eT.found = lT.found
        /\ ~less(eager.h.less, eT.value, lT.value)
        /\ ~less(eager.h.less, lT.value, eT.value)
        /\ (eager.h.less \in {"min", "max"}) => eT.value = lT.value

\* an Extract, after Inserts and Extracts had alternated, for which the lazy
\* heap rebuilt its array and was left with the elements in another order
\* than the eager heap
LazyEquivalenceWitness ==
    /\ Ready /\ lastOp = "Extract" /\ eT.found /\ lT.found
    /\ lazy.heapified /\ Len(lazy.h.data) >= 2
    /\ lazy.h.data # eager.h.data /\ phase = "mixed"

----------------------------------------------------------------------------
(* C5 *)

\* C5: count conservation.  The length of every heap equals the number of
\* Inserts that returned nil minus the number of Extracts that returned
\* found = true, and an Extract returns found = false only when as many
\* Extracts have returned a value as Inserts have succeeded.
CountConservation ==
    Ready => \A x \in Instances :
                /\ Len(x.hp.data) = x.t.nIns - x.t.nExt
                /\ (lastOp = "Extract" /\ ~x.t.found) => x.t.nExt = x.t.nIns

\* n = 2 Inserts succeeded on each heap, two Extracts returned a value and
\* the third returned found = false
CountConservationWitness ==
    /\ Ready /\ lastOp = "Extract"
    /\ \A x \in Instances : x.t.nIns = 2 /\ x.t.nExt = 2 /\ ~x.t.found

----------------------------------------------------------------------------
(* C6 *)

\* C6: content conservation.  The multiset of the values stored in every heap
\* equals the multiset of the values successfully inserted minus the multiset
\* of the values extracted, duplicates counted.
ContentConservation ==
    Ready => \A x \in Instances : BagOf(x.hp.data) = x.t.live

\* the eager heap has reallocated, the lazy heap has rebuilt, a value has been
\* extracted and a non-zero value is stored twice
ContentConservationWitness ==
    /\ Ready /\ eager.h.cap > eager.cap /\ lazy.heapified /\ eT.nExt >= 1
    /\ \E v \in Values \ {Zero} : eT.live[v] >= 2 /\ lT.live[v] >= 2

----------------------------------------------------------------------------
(* C7 *)

\* C7: an Extract on an empty Heap or OptimizedHeap (eager or lazy) returns
\* (zero value, false) and leaves the contents, the capacity and the
\* heapified flag as they were.
EmptyExtractNoMutation ==
    [][(pc = "ready" /\ lastOp' = "Extract") =>
          /\ (Len(h.data) = 0) =>
                (h' = h /\ hT'.value = Zero /\ ~hT'.found)
          /\ (Len(eager.h.data) = 0) =>
                (eager' = eager /\ eT'.value = Zero /\ ~eT'.found)
          /\ (Len(lazy.h.data) = 0) =>
                (lazy' = lazy /\ lT'.value = Zero /\ ~lT'.found)]_vars

\* an Extract found all three heaps empty, the lazy one before its first
\* rebuild (heapified still false)
EmptyExtractNoMutationWitness ==
    /\ Ready /\ lastOp = "Extract"
    /\ ~hT.found /\ ~eT.found /\ ~lT.found
    /\ ~lazy.heapified /\ lT.nIns = 0

----------------------------------------------------------------------------
(* C8 *)

\* C8: fixed-capacity rejection.  On an OptimizedHeap (eager or lazy) built
\* with canGrow = false and capacity c, when only Inserts have been called,
\* Inserts number 1..c return nil, and Insert number c+1 returns
\* ErrCapacityReached and leaves c elements stored.
FixedCapacityRejection ==
    (Ready /\ phase = "fill" /\ lastOp = "Insert") =>
        \A x \in Optimized :
            ~x.oh.canGrow =>
                /\ (nOps <= x.oh.cap) => (x.t.err = ErrNil /\ Len(x.oh.h.data) = nOps)
                /\ (nOps = x.oh.cap + 1) =>
                       (x.t.err = ErrCapacityReached /\ Len(x.oh.h.data) = x.oh.cap)

\* the third Insert on heaps of fixed capacity 2 was rejected
FixedCapacityRejectionWitness ==
    /\ Ready /\ phase = "fill" /\ lastOp = "Insert" /\ nOps = 3
    /\ \A x \in Optimized :
           ~x.oh.canGrow /\ x.oh.cap = 2 /\ x.t.err = ErrCapacityReached

----------------------------------------------------------------------------
(* C9 *)

\* C9: an Insert that returns ErrCapacityReached leaves the OptimizedHeap
\* (eager or lazy) as it was: the same elements in the same order, the same
\* capacity, the same heapified flag.
RejectedInsertNoMutation ==
    [][(pc = "ready" /\ lastOp' = "Insert") =>
          /\ (eT'.err = ErrCapacityReached) => eager' = eager
          /\ (lT'.err = ErrCapacityReached) => lazy' = lazy]_vars

\* an Insert was rejected by both heaps, each holding two elements
RejectedInsertNoMutationWitness ==
    /\ Ready /\ lastOp = "Insert"
    /\ \A x \in Optimized : x.t.err = ErrCapacityReached /\ Len(x.oh.h.data) = 2

----------------------------------------------------------------------------
(* C10 *)

\* C10: on an OptimizedHeap built with canGrow = false and capacity c, in any
\* sequence of calls, the capacity of the backing array is c before and after
\* every call, and an Insert returns ErrCapacityReached exactly when the
\* length equals the capacity at the time of the call and nil otherwise; so
\* the Insert after an Extract on a full heap succeeds.
FixedCapacityStaysUsable ==
    [][(pc = "ready") =>
          /\ ~eager.canGrow =>
                /\ eager.h.cap = eager.cap /\ eager'.h.cap = eager.cap
                /\ (lastOp' = "Insert") =>
                      /\ eT'.err = ErrCapacityReached
                             <=> Len(eager.h.data) = eager.h.cap
                      /\ eT'.err = ErrNil <=> Len(eager.h.data) < eager.h.cap
          /\ ~lazy.canGrow =>
                /\ lazy.h.cap = lazy.cap /\ lazy'.h.cap = lazy.cap
                /\ (lastOp' = "Insert") =>
                      /\ lT'.err = ErrCapacityReached
                             <=> Len(lazy.h.data) = lazy.h.cap
                      /\ lT'.err = ErrNil <=> Len(lazy.h.data) < lazy.h.cap]_vars

\* after a rejected Insert and an Extract that freed a slot, an Insert
\* succeeded and filled the heaps again
FixedCapacityStaysUsableWitness ==
    /\ Ready /\ lastOp = "Insert"
    /\ \A x \in Optimized :
           /\ ~x.oh.canGrow /\ x.t.err = ErrNil
           /\ hT.nIns > x.t.nIns /\ x.t.nExt >= 1
           /\ Len(x.oh.h.data) = x.oh.cap

----------------------------------------------------------------------------
(* SpecCtor: the constructor on recorded arguments *)

\* number of Insert/Extract calls made after the constructor in SpecCtor
MaxCtorOps == 2

InitCtor ==
    /\ Init!1 /\ Init!2 /\ Init!3 /\ Init!4 /\ Init!5 /\ Init!6
    /\ Init!7 /\ Init!8 /\ Init!9 /\ Init!10 /\ Init!11
    /\ args \in [less : Comparators, opts : OptLists]
    /\ run = "none"

\* NewOptimizedHeap(args.less, args.opts...), with and without
\* UseLazyHeapification() appended, and New(args.less)
NewFromArgs == NewWith(args.less, args.opts)

\* the first calls on the heaps returned
InsertFirst(value) == nOps < MaxCtorOps /\ Insert(value)

ExtractFirst == nOps < MaxCtorOps /\ Extract

NextCtor ==
    \/ NewFromArgs
    \/ \E value \in Values : InsertFirst(value)
    \/ ExtractFirst

SpecCtor == InitCtor /\ [][NextCtor]_vars

\* the capacity the options ask for: that of the last WithCapacity among them,
\* the default when there is none
RequestedCap(opts) ==
    LET at == {i \in 1..Len(opts) : opts[i].opt = "WithCapacity"}
    IN  IF at = {} THEN DefaultCap
        ELSE opts[CHOOSE i \in at : \A j \in at : j <= i].cap

----------------------------------------------------------------------------
(* C11 *)

\* C11: construction validation.  With c the capacity left by the options
\* applied in order, NewOptimizedHeap returns (nil, ErrNegativeCap) when
\* c < 0, (nil, ErrZeroCap) when c = 0, and otherwise a heap and a nil error,
\* the heap empty with a backing array of capacity exactly c; a first Insert
\* on it returns nil.
ConstructionValidation ==
    (pc # "new") =>
        LET c == RequestedCap(args.opts)
        IN  /\ (c < 0) => (pc = "failed" /\ ctorErr = ErrNegativeCap
                              /\ eager = "nil" /\ lazy = "nil")
            /\ (c = 0) => (pc = "failed" /\ ctorErr = ErrZeroCap
                              /\ eager = "nil" /\ lazy = "nil")
            /\ (c > 0) =>
                  /\ pc = "ready" /\ ctorErr = ErrNil
                  /\ \A x \in Optimized :
                        /\ (lastOp = "New") =>
                               (x.oh.h.cap = c /\ x.oh.h.data = <<>>)
                        /\ (lastOp = "Insert" /\ nOps = 1) =>
                               (x.t.err = ErrNil /\ Len(x.oh.h.data) = 1)

\* two WithCapacity options were passed, the first asking for a valid
\* capacity and the last for zero, and the constructor returned ErrZeroCap
ConstructionValidationWitness ==
    /\ pc = "failed" /\ ctorErr = ErrZeroCap
    /\ Len(args.opts) = 2
    /\ args.opts[1].opt = "WithCapacity" /\ args.opts[1].cap = 2
    /\ args.opts[2].opt = "WithCapacity" /\ args.opts[2].cap = 0

----------------------------------------------------------------------------
(* C12 *)

\* the capacity the growth rule gives a full array of capacity c under growth
\* function f: f(c) when that is larger than c, c + 1 otherwise
RuleCap(f, c) == IF growthFunc(f, c) > c THEN growthFunc(f, c) ELSE c + 1

\* C12: eager growth rule.  On an eager OptimizedHeap with growth permitted an
\* Insert returns nil; it leaves the capacity unchanged when it finds
\* length < capacity, and when it finds length = capacity the new capacity is
\* growthFunc(capacity) if that is larger than the capacity and capacity + 1
\* otherwise.  No other call changes the capacity (the growth function plays
\* no part in Extract).
EagerGrowthRule ==
    [][(pc = "ready" /\ eager.canGrow) =>
          /\ (lastOp' = "Insert") =>
                /\ eT'.err = ErrNil
                /\ eager'.h.cap =
                       IF Len(eager.h.data) < eager.h.cap THEN eager.h.cap
                       ELSE RuleCap(eager.growthFunc, eager.h.cap)
          /\ (lastOp' = "Extract") => eager'.h.cap = eager.h.cap]_vars

\* under the growth function that returns half the capacity, two Inserts
\* found the array full and each enlarged it by one
EagerGrowthRuleWitness ==
    /\ Ready /\ lastOp = "Insert" /\ eager.canGrow
    /\ eager.growthFunc = "half" /\ eager.h.cap = eager.cap + 2

----------------------------------------------------------------------------
(* C13 *)

\* C13: growth under lazy mode.  A lazy Insert that finds length = capacity,
\* with growth permitted, returns nil and enlarges the backing array by the
\* eager rule: to growthFunc(capacity), or to capacity + 1 when that is not
\* larger.
LazyGrowthRule ==
    [][(pc = "ready" /\ lastOp' = "Insert" /\ lazy.canGrow
            /\ Len(lazy.h.data) = lazy.h.cap) =>
          /\ lT'.err = ErrNil
          /\ lazy'.h.cap = RuleCap(lazy.growthFunc, lazy.h.cap)]_vars

----------------------------------------------------------------------------
(* C14 *)

\* C14: capacity never shrinks.  Over every Insert and Extract on an
\* OptimizedHeap (eager or lazy), whatever the growth function returns, the
\* capacity after the call is at least the capacity before it, and the length
\* never exceeds the capacity.
CapacityNeverShrinks ==
    [][(pc = "ready") =>
          /\ eager'.h.cap >= eager.h.cap
          /\ lazy'.h.cap >= lazy.h.cap
          /\ Len(eager.h.data) <= eager.h.cap /\ Len(eager'.h.data) <= eager'.h.cap
          /\ Len(lazy.h.data) <= lazy.h.cap /\ Len(lazy'.h.data) <= lazy'.h.cap]_vars

\* under the growth function that returns half the capacity, both heaps have
\* outgrown the capacity they were built with and an Extract has followed
CapacityNeverShrinksWitness ==
    /\ Ready /\ lastOp = "Extract" /\ eT.found /\ lT.found
    /\ eager.growthFunc = "half"
    /\ eager.h.cap > eager.cap /\ lazy.h.cap > lazy.cap

----------------------------------------------------------------------------
(* C15 *)

\* C15: the lazy rebuild restores the invariant.  After every completed
\* Extract on the lazy OptimizedHeap, whatever lazy Inserts and Extracts came
\* before, the remaining elements satisfy the heap property at every index
\* i > 0; and the bottom-up pass of buildHeap establishes the heap property
\* on every array the lazy Inserts and Extracts can leave behind.
LazyRebuildRestoresOrder ==
    Ready =>
        /\ (lastOp = "Extract") => HeapOrdered(lazy.h.less, lazy.h.data)
        /\ HeapOrdered(lazy.h.less, buildHeap(lazy).h.data)

\* an Extract rebuilt an array that Inserts had left out of heap order (the
\* eager heap holds the same elements in another order) and left four
\* elements of more than one priority
LazyRebuildRestoresOrderWitness ==
    /\ Ready /\ lastOp = "Extract" /\ lT.found /\ lazy.heapified
    /\ Len(lazy.h.data) >= 4
    /\ lazy.h.data # eager.h.data
    /\ \E i \in 1..Len(lazy.h.data) : less(lazy.h.less, lazy.h.data[1], lazy.h.data[i])

----------------------------------------------------------------------------
(* C17 *)

\* C17: the eager OptimizedHeap refines the Heap.  With growth permitted,
\* whatever the initial capacity and the growth function, after every call
\* the eager OptimizedHeap holds the same values at the same indices as the
\* plain Heap given the same comparator and the same calls, and every call
\* returned the same result on both.
EagerRefinesHeap ==
    (Ready /\ eager.canGrow) =>
        /\ eager.h.data = h.data
        /\ eT.err = hT.err /\ eT.value = hT.value /\ eT.found = hT.found

\* Inserts and Extracts have alternated, the eager heap has reallocated under
\* the growth function returning half the capacity, and three elements of
\* more than one priority are stored
EagerRefinesHeapWitness ==
    /\ Ready /\ eager.canGrow /\ phase = "mixed" /\ lastOp = "Extract" /\ eT.found
    /\ eager.growthFunc = "half" /\ eager.h.cap > eager.cap
    /\ Len(eager.h.data) >= 3
    /\ \E i \in 1..Len(h.data) : less(h.less, h.data[1], h.data[i])

----------------------------------------------------------------------------
(* C18 *)

\* C18: soundness of the heapified flag.  On the lazy OptimizedHeap, between
\* calls, heapified = true implies that the array satisfies the heap property;
\* the flag is false after every Insert that returned nil and true after every
\* Extract that found the heap non-empty.
HeapifiedFlagSound ==
    Ready =>
        /\ lazy.heapified => HeapOrdered(lazy.h.less, lazy.h.data)
        /\ (lastOp = "Insert" /\ lT.err = ErrNil) => ~lazy.heapified
        /\ (lastOp = "Extract" /\ lT.found) => lazy.heapified

\* a second Extract in a row ran without a rebuild (the flag was already
\* true) on the array the first one had rebuilt, and left two elements
HeapifiedFlagSoundWitness ==
    /\ Ready /\ lastOp = "Extract" /\ lT.prev.found /\ lT.found /\ lazy.heapified
    /\ Len(lazy.h.data) >= 2
    /\ \E i \in 1..Len(lazy.h.data) : less(lazy.h.less, lazy.h.data[1], lazy.h.data[i])

----------------------------------------------------------------------------
(* SpecSteps: one call, statement by statement *)

\* length of the array the call starts on
MaxLen == 4

\* the arrays of at most MaxLen values
Arrays == UNION {[1..n -> Values] : n \in 0..MaxLen}

\* a heap between two calls: an eager heap or a Heap holds a heap-ordered
\* array; a lazy heap holds any array while heapified is false (lazy Inserts
\* append in any order) and a heap-ordered one while it is true
IdleRuns ==
    {r \in [pc : {"idle"}, less : Comparators, useLazy : BOOLEAN,
            heapified : BOOLEAN, data : Arrays, index : {0}, i : {0},
            ret : {"done"}, prev : {-1}, value : {Zero}, found : {FALSE}] :
        /\ r.heapified => r.useLazy
        /\ (r.heapified \/ ~r.useLazy) => HeapOrdered(r.less, r.data)}

\* the variables of the calls on the three instances, which a single call
\* leaves alone
callVars == <<pc, ctorErr, h, eager, lazy, lastOp, nOps, phase, hT, eT, lT, args>>

InitSteps ==
    /\ Init!1 /\ Init!2 /\ Init!3 /\ Init!4 /\ Init!5 /\ Init!6
    /\ Init!7 /\ Init!8 /\ Init!9 /\ Init!10 /\ Init!11
    /\ args = "none"
    /\ run \in IdleRuns

\* `for index > 0`
UpGuardIncludingRoot(index) == index >= 0

UpGuard(index) == index > 0

\* heapifyDown's choice with the right child compared first
siftTargetRightFirst(cmp, d, index) ==
    LET n == Len(d)
        leftChild == leftChildIndex(index)
        rightChild == rightChildIndex(index)
        c1 == IF rightChild < n /\ less(cmp, At(d, rightChild), At(d, index))
              THEN rightChild ELSE index
    IN  IF leftChild < n /\ less(cmp, At(d, leftChild), At(d, c1))
        THEN leftChild ELSE c1

\* the value of `current` when heapifyDown(index) reaches `if current != index`
siftTarget(cmp, d, index) ==
    LET n == Len(d)
        leftChild == leftChildIndex(index)
        rightChild == rightChildIndex(index)
        c1 == IF leftChild < n /\ less(cmp, At(d, leftChild), At(d, index))
              THEN leftChild ELSE index
    IN  IF rightChild < n /\ less(cmp, At(d, rightChild), At(d, c1))
        THEN rightChild ELSE c1

\* Insert(value) is called: the element is appended; an eager heap or a Heap
\* goes on to heapifyUp(len - 1), a lazy heap clears heapified and returns
CallInsert(value) ==
    /\ run.pc = "idle"
    /\ run' = IF run.useLazy
              THEN [run EXCEPT !.data = Append(run.data, value),
                               !.heapified = FALSE, !.pc = "done"]
              ELSE [run EXCEPT !.data = Append(run.data, value),
                               !.index = Len(run.data), !.pc = "up"]
    /\ UNCHANGED callVars

\* Extract() is called: a lazy heap that shouldBuildHeap enters buildHeap's
\* loop at i = n/2 - 1, any other heap goes to Heap.Extract
CallExtract ==
    /\ run.pc = "idle"
    /\ run' = IF run.useLazy /\ ~run.heapified /\ Len(run.data) > 0
              THEN [run EXCEPT !.pc = "build", !.i = Len(run.data) \div 2 - 1]
              ELSE [run EXCEPT !.pc = "pop"]
    /\ UNCHANGED callVars

\* one iteration of heapifyUp's loop without the `else { break }`
UpStepNoBreak ==
    /\ run.pc = "up"
    /\ run' = IF UpGuard(run.index)
              THEN IF less(run.less, At(run.data, run.index),
                           At(run.data, parentIndex(run.index)))
                   THEN [run EXCEPT !.data = Swap(run.data, run.index,
                                                  parentIndex(run.index)),
                                    !.index = parentIndex(run.index)]
                   ELSE run
              ELSE [run EXCEPT !.pc = "done"]
    /\ UNCHANGED callVars

\* one iteration of heapifyUp's loop
UpStep ==
    /\ run.pc = "up"
    /\ run' = IF UpGuard(run.index)
              THEN IF less(run.less, At(run.data, run.index),
                           At(run.data, parentIndex(run.index)))
                   THEN [run EXCEPT !.data = Swap(run.data, run.index,
                                                  parentIndex(run.index)),
                                    !.index = parentIndex(run.index)]
                   ELSE [run EXCEPT !.pc = "done"]
              ELSE [run EXCEPT !.pc = "done"]
    /\ UNCHANGED callVars

\* one test of buildHeap's loop: heapifyDown(i) is called, or the loop ends,
\* heapified is set and Heap.Extract follows
BuildStep ==
    /\ run.pc = "build"
    /\ run' = IF run.i >= 0
              THEN [run EXCEPT !.pc = "down", !.index = run.i, !.prev = -1,
                               !.ret = "build"]
              ELSE [run EXCEPT !.pc = "pop", !.heapified = TRUE]
    /\ UNCHANGED callVars

\* Heap.Extract up to its call of heapifyDown(0)
PopStep ==
    /\ run.pc = "pop"
    /\ run' = IF Len(run.data) = 0
              THEN [run EXCEPT !.pc = "done", !.value = Zero, !.found = FALSE]
              ELSE LET lastIndex == Len(run.data) - 1
                       moved == [run.data EXCEPT ![1] = At(run.data, lastIndex)]
                   IN  [run EXCEPT !.value = At(run.data, 0), !.found = TRUE,
                                   !.data = SubSeq(moved, 1, lastIndex),
                                   !.pc = "down", !.index = 0, !.prev = -1,
                                   !.ret = "done"]
    /\ UNCHANGED callVars

\* one activation of heapifyDown: swap and recurse at `current`, or return
\* (to buildHeap's loop, which decrements i, or to Heap.Extract, which returns)
DownStep ==
    /\ run.pc = "down"
    /\ LET current == siftTarget(run.less, run.data, run.index)
       IN  run' = IF current # run.index
                  THEN [run EXCEPT !.data = Swap(run.data, run.index, current),
                                   !.prev = run.index, !.index = current]
                  ELSE IF run.ret = "build"
                  THEN [run EXCEPT !.pc = "build", !.i = run.i - 1]
                  ELSE [run EXCEPT !.pc = "done"]
    /\ UNCHANGED callVars

NextSteps ==
    \/ \E value \in Values : CallInsert(value)
    \/ CallExtract
    \/ UpStep
    \/ BuildStep
    \/ PopStep
    \/ DownStep

SpecSteps == InitSteps /\ [][NextSteps]_vars

\* a call that has started runs on: the caller executes statement after
\* statement
SpecStepsFair == SpecSteps /\ WF_vars(NextSteps)

----------------------------------------------------------------------------
(* Vocabulary of the statement-level claims *)

\* the call is between its first and its last statement
Running == run.pc \in {"up", "build", "pop", "down"}

\* the statement executed was a swap of heapifyDown followed by its recursion
SiftedDown == run.pc = "down" /\ run'.pc = "down"

\* both children of index exist in d and both have higher priority than d[index]
BothQualify(cmp, d, index) ==
    /\ rightChildIndex(index) < Len(d)
    /\ less(cmp, At(d, leftChildIndex(index)), At(d, index))
    /\ less(cmp, At(d, rightChildIndex(index)), At(d, index))

\* the child promoted has higher priority than the element it replaces and no
\* candidate has higher priority than it
BestPromoted(cmp, d, index, target) ==
    /\ target \in {leftChildIndex(index), rightChildIndex(index)}
    /\ target < Len(d)
    /\ less(cmp, At(d, target), At(d, index))
    /\ \A c \in {leftChildIndex(index), rightChildIndex(index)} :
           c < Len(d) => ~less(cmp, At(d, c), At(d, target))

\* no child of index in d has higher priority than d[index]
NoChildBetter(cmp, d, index) ==
    \A c \in {leftChildIndex(index), rightChildIndex(index)} :
        c < Len(d) => ~less(cmp, At(d, c), At(d, index))

\* the indices at which the statement about to run reads or writes r.data:
\* heapifyUp's comparison and swap, Heap.Extract's data[0] and data[lastIndex],
\* heapifyDown's guarded comparisons and swap
Accessed(r) ==
    LET n == Len(r.data)
        leftChild == leftChildIndex(r.index)
        rightChild == rightChildIndex(r.index)
    IN  CASE r.pc = "up" ->
                 IF UpGuard(r.index) THEN {r.index, parentIndex(r.index)} ELSE {}
          [] r.pc = "pop" -> IF n = 0 THEN {} ELSE {0, n - 1}
          [] r.pc = "down" ->
                 (IF leftChild < n THEN {leftChild, r.index} ELSE {})
                     \cup (IF rightChild < n THEN {rightChild, r.index} ELSE {})
          [] OTHER -> {}

----------------------------------------------------------------------------
(* C16 *)

\* C16 as stated: at each sift-down step the promoted child is the single
\* highest-priority candidate, and when both children have higher priority
\* than the current element the left child is swapped up only if
\* less(left, right), otherwise the right child.  Violated: on a tie between
\* the children the code swaps the left one up
SiftDownTieBreakAsStated ==
    [][SiftedDown =>
        /\ BestPromoted(run.less, run.data, run.index, run'.index)
        /\ BothQualify(run.less, run.data, run.index) =>
               run'.index =
                   IF less(run.less, At(run.data, leftChildIndex(run.index)),
                           At(run.data, rightChildIndex(run.index)))
                   THEN leftChildIndex(run.index)
                   ELSE rightChildIndex(run.index)]_vars

\* C16 amended: at each sift-down step the promoted child has higher priority
\* than the current element and no candidate among {current, left, right} has
\* higher priority than it; when both children have higher priority than the
\* current element the right child is swapped up only if less(right, left),
\* otherwise (a tie between the children included) the left child
SiftDownTieBreak ==
    [][SiftedDown =>
        /\ BestPromoted(run.less, run.data, run.index, run'.index)
        /\ run'.data = Swap(run.data, run.index, run'.index)
        /\ BothQualify(run.less, run.data, run.index) =>
               run'.index =
                   IF less(run.less, At(run.data, rightChildIndex(run.index)),
                           At(run.data, leftChildIndex(run.index)))
                   THEN rightChildIndex(run.index)
                   ELSE leftChildIndex(run.index)]_vars

\* a sift-down step has just swapped the left child up although the right
\* child, a different value of the same priority, qualified as well
SiftDownTieBreakWitness ==
    /\ run.pc = "down"
    /\ run.prev >= 0
    /\ run.index = leftChildIndex(run.prev)
    /\ rightChildIndex(run.prev) < Len(run.data)
    /\ LET promoted == At(run.data, run.prev)
           demoted == At(run.data, run.index)
           sibling == At(run.data, rightChildIndex(run.prev))
       IN  /\ less(run.less, promoted, demoted)
           /\ less(run.less, sibling, demoted)
           /\ ~less(run.less, promoted, sibling)
           /\ ~less(run.less, sibling, promoted)
           /\ promoted # sibling

----------------------------------------------------------------------------
(* C19 *)

\* C19: no statement reads or writes the array at an index outside
\* 0..len-1: not heapifyDown(0) on the array Extract emptied, not heapifyUp
\* from index 0, not buildHeap on an array of length 1 or 2
IndexSafety ==
    Accessed(run) \subseteq 0..(Len(run.data) - 1)

\* Extract on a one-element heap has removed the element and is in
\* heapifyDown(0) on the empty array
IndexSafetyWitness ==
    /\ run.pc = "down"
    /\ run.found
    /\ run.index = 0
    /\ run.data = <<>>

----------------------------------------------------------------------------
(* C20 *)

\* C20: every call runs to completion: heapifyUp's index strictly decreases
\* and stays at or above 0, heapifyDown's index strictly increases within the
\* array and the recursion ends only where no child has higher priority,
\* buildHeap calls heapifyDown(i) for strictly decreasing i >= 0; a started
\* Insert or Extract reaches its return
Termination ==
    /\ [][/\ (run.pc = "up" /\ run'.pc = "up") =>
                 (0 <= run'.index /\ run'.index < run.index)
          /\ SiftedDown =>
                 (run.index < run'.index /\ run'.index < Len(run.data))
          /\ (run.pc = "down" /\ run'.pc # "down") =>
                 NoChildBetter(run.less, run.data, run.index)
          /\ (run.pc = "down" /\ run'.pc = "build") => run'.i = run.i - 1
          /\ (run.pc = "build" /\ run'.pc = "down") =>
                 (run'.index = run.i /\ run.i >= 0 /\ run'.i = run.i)]_vars
    /\ Running ~> (run.pc = "done")

\* a lazy Extract has returned after the rebuild of an array of at least four
\* elements, the three left all of equal priority
TerminationWitness ==
    /\ run.pc = "done"
    /\ run.useLazy
    /\ run.heapified
    /\ run.found
    /\ run.i = -1
    /\ Len(run.data) >= 3
    /\ \A k \in 1..Len(run.data) :
           /\ ~less(run.less, run.data[k], run.value)
           /\ ~less(run.less, run.value, run.data[k])

====
